---- MODULE Spec2Model ----
(***************************************************************************)
(* The Servo style engines of stylo_compute: ServoStyleEngine (simulation  *)
(* or real integration, src/src/servo_style_engine.rs),                    *)
(* ServoStyleEngineReal (src/src/servo_style_engine_real.rs and the        *)
(* linux-ready draft) and ServoStyleEngineOptimized                        *)
(* (src/src/servo_style_engine_optimized.rs), and the Stylo adapter        *)
(* StyloElement and StyloNode (src/src/stylo_element.rs).                  *)
(*                                                                         *)
(* A Rust string is a sequence of tokens.  A token is a piece of text no   *)
(* marker or needle straddles; NL is the newline character.  Option<T> is  *)
(* a sequence of length 0 (None) or 1 (Some).  A Result is a record with   *)
(* an ok field.                                                            *)
(***************************************************************************)
EXTENDS Naturals, Sequences, FiniteSets

VARIABLES
    pathExists,               \* the executable paths that exist on disk
    servoOnPath,              \* which::which("servo") succeeds
    enable_real_integration,  \* servo_config.toml holds "enable_real_integration = true"
    servo,                    \* how a run of the Servo executable goes
    kind,                     \* which engine has been constructed ("none": not yet)
    base_html,                \* the engine's base_html
    stylesheets,              \* the engine's stylesheets: Vec<String>
    servo_path,               \* the engine's servo_path: Option<String>
    use_daemon,               \* ServoStyleEngineOptimized.use_daemon
    SERVO_DAEMON,             \* the global OnceCell: TRUE once a daemon is stored
    addLog,                   \* history: the add_stylesheet arguments, in call order
    htmlLog,                  \* history: the argument of the last set_html
    lastCall,                 \* the last call made: its inputs and what it returned
    element,                  \* the StyloElement the client is building
    domCall,                  \* the last call on the element and what it returned
    pending,                  \* the query call that waits for Servo, if any
    servo_process,            \* field servo_process of the linux-ready engine
    processes                 \* the Servo children spawned so far: running or exited

vars == << pathExists, servoOnPath, enable_real_integration, servo, kind, base_html,
           stylesheets, servo_path, use_daemon, SERVO_DAEMON,
           addLog, htmlLog, lastCall, element, domCall,
           pending, servo_process, processes >>

(***************************************************************************)
(* Bounds.                                                                 *)
(***************************************************************************)
MaxSheets == 2
MaxLines == 2
MaxBatch == 2
MaxChildren == 2

(***************************************************************************)
(* Strings.                                                                *)
(***************************************************************************)
NL == "\n"
SP == " "
None == << >>
Some(x) == << x >>
IsSome(o) == Len(o) = 1

Min(a, b) == IF a < b THEN a ELSE b

\* str::contains(needle)
Contains(hay, needle) ==
    \E i \in 1..(Len(hay) + 1) :
        /\ i + Len(needle) - 1 <= Len(hay)
        /\ SubSeq(hay, i, i + Len(needle) - 1) = needle

\* [String]::join(sep)
RECURSIVE Join(_, _)
Join(strs, sep) ==
    IF Len(strs) = 0 THEN << >>
    ELSE IF Len(strs) = 1 THEN strs[1]
    ELSE strs[1] \o sep \o Join(Tail(strs), sep)

\* HashMap::insert
Insert(m, k, v) == [x \in (DOMAIN m) \cup {k} |-> IF x = k THEN v ELSE m[x]]

RECURSIVE InsertAll(_, _)
InsertAll(m, pairs) ==
    IF Len(pairs) = 0 THEN m
    ELSE InsertAll(Insert(m, pairs[1][1], pairs[1][2]), Tail(pairs))

Ok(v) == [ok |-> TRUE, value |-> v]
Err(variant, msg) == [ok |-> FALSE, err |-> variant, msg |-> msg]


(***************************************************************************)
(* Records of the program.                                                 *)
(***************************************************************************)
\* struct StyleQuery
StyleQuery(id, html, css, selector, property, pseudo_element) ==
    [id |-> id, html |-> html, css |-> css, selector |-> selector,
     property |-> property, pseudo_element |-> pseudo_element]

\* struct StyleResponse
StyleResponse(id, success, computed_value, computed_styles, error) ==
    [id |-> id, success |-> success, computed_value |-> computed_value,
     computed_styles |-> computed_styles, error |-> error]

\* the fields every engine struct has; servo_process and use_daemon are
\* separate variables
Engine(html, sheets, path) ==
    [base_html |-> html, stylesheets |-> sheets, servo_path |-> path]

Self == Engine(base_html, stylesheets, servo_path)

(***************************************************************************)
(* ServoStyleEngine: the simulation.                                       *)
(***************************************************************************)
EmptyMap == [x \in {} |-> ""]

\* the inserts of simulate_style_computation, in source order
DefaultStyles ==
    << <<"display", "block">>,
       <<"color", "rgb(0, 0, 0)">>,
       <<"font-family", "serif">>,
       <<"font-size", "16px">>,
       <<"font-weight", "400">>,
       <<"line-height", "normal">>,
       <<"margin-top", "0px">>,
       <<"margin-right", "0px">>,
       <<"margin-bottom", "0px">>,
       <<"margin-left", "0px">>,
       <<"padding-top", "0px">>,
       <<"padding-right", "0px">>,
       <<"padding-bottom", "0px">>,
       <<"padding-left", "0px">>,
       <<"border-top-width", "0px">>,
       <<"border-right-width", "0px">>,
       <<"border-bottom-width", "0px">>,
       <<"border-left-width", "0px">>,
       <<"background-color", "rgba(0, 0, 0, 0)">>,
       <<"position", "static">>,
       <<"z-index", "auto">> >>

\* the three needles, as token sequences: "background-color: yellow" holds
\* the text "color: " and "background-color: red" holds "color: red"
ColorRed == << "color: ", "red" >>
FontSize24 == << "font-size: ", "24px" >>
BackgroundYellow == << "background-", "color: ", "yellow" >>

\* the map after the inserts of the defaults
DefaultMap == InsertAll(EmptyMap, DefaultStyles)

simulate_style_computation_NoFontSize(query) ==
    LET s0 == DefaultMap
        s1 == IF Contains(query.css, ColorRed)
              THEN Insert(s0, "color", "rgb(255, 0, 0)") ELSE s0
    IN  IF Contains(query.css, BackgroundYellow)
        THEN Insert(s1, "background-color", "rgb(255, 255, 0)") ELSE s1

simulate_style_computation(query) ==
    LET s0 == DefaultMap
        s1 == IF Contains(query.css, ColorRed)
              THEN Insert(s0, "color", "rgb(255, 0, 0)") ELSE s0
        s2 == IF Contains(query.css, FontSize24)
              THEN Insert(s1, "font-size", "24px") ELSE s1
    IN  IF Contains(query.css, BackgroundYellow)
        THEN Insert(s2, "background-color", "rgb(255, 255, 0)") ELSE s2

\* format!("Property '{}' not found or invalid", property)
PropertyNotFound(property) == << "Property '", property, "' not found or invalid" >>

\* simulate_servo_response that reports success for every property
simulate_servo_response_AlwaysSuccess(query) ==
    LET computed_styles == simulate_style_computation(query)
    IN  IF IsSome(query.property)
        THEN LET property == query.property[1]
                 has_value == property \in DOMAIN computed_styles
                 computed_value == IF has_value THEN Some(computed_styles[property])
                                   ELSE None
             IN  Ok(StyleResponse(query.id, TRUE, computed_value, None, None))
        ELSE Ok(StyleResponse(query.id, TRUE, None, Some(computed_styles), None))

simulate_servo_response(query) ==
    LET computed_styles == simulate_style_computation(query)
    IN  IF IsSome(query.property)
        THEN LET property == query.property[1]
                 has_value == property \in DOMAIN computed_styles
                 computed_value == IF has_value THEN Some(computed_styles[property])
                                   ELSE None
             IN  Ok(StyleResponse(query.id, has_value, computed_value, None,
                        IF ~has_value THEN Some(PropertyNotFound(property)) ELSE None))
        ELSE Ok(StyleResponse(query.id, TRUE, None, Some(computed_styles), None))


\* Option::unwrap_or
unwrap_or(o, d) == IF IsSome(o) THEN o[1] ELSE d

\* Uuid::new_v4(): the id of the n-th query of a call
Uuid(n) == << << "id-1", "id-2", "id-3", "id-4" >>[n] >>

\* ServoStyleEngine::query_servo, the branch taken when servo_config.toml
\* does not enable real integration
query_servo(query) == simulate_servo_response(query)

\* what a call returns to its caller, what it handed to Servo or to the
\* simulation, and how many Servo processes it started
Outcome(result, sent, spawned) ==
    [result |-> result, sent |-> sent, spawned |-> spawned]

\* ServoStyleEngine::get_computed_style
Sim_get_computed_style(self, selector, property, pseudo_element) ==
    LET query == StyleQuery(Uuid(1), self.base_html, Join(self.stylesheets, <<NL>>),
                            selector, Some(property), pseudo_element)
        response == query_servo(query)
        result ==
            IF ~response.ok THEN response
            ELSE IF response.value.success
            THEN IF IsSome(response.value.computed_value)
                 THEN Ok(response.value.computed_value[1])
                 ELSE Err("ProcessError", << "No computed value in response" >>)
            ELSE Err("ProcessError", unwrap_or(response.value.error, << "Unknown error" >>))
    IN  Outcome(result, query, 0)

\* ServoStyleEngine::get_all_computed_styles
Sim_get_all_computed_styles(self, selector, pseudo_element) ==
    LET query == StyleQuery(Uuid(1), self.base_html, Join(self.stylesheets, <<NL>>),
                            selector, None, pseudo_element)
        response == query_servo(query)
        result ==
            IF ~response.ok THEN response
            ELSE IF response.value.success
            THEN IF IsSome(response.value.computed_styles)
                 THEN Ok(response.value.computed_styles[1])
                 ELSE Err("ProcessError", << "No computed styles in response" >>)
            ELSE Err("ProcessError", unwrap_or(response.value.error, << "Unknown error" >>))
    IN  Outcome(result, query, 0)

(***************************************************************************)
(* Construction, add_stylesheet and set_html.                              *)
(***************************************************************************)
\* the check "Servo is available" of the constructors
ServoFound(path) ==
    IF IsSome(path) THEN path[1] \in pathExists ELSE servoOnPath

\* ServoStyleEngine::new: never checks for Servo
Sim_new == Outcome(Ok(Engine(<< >>, << >>, None)), None, 0)

\* ServoStyleEngine::with_servo_path: checks only under real integration
Sim_with_servo_path(path) ==
    IF enable_real_integration /\ ~ServoFound(path)
    THEN Outcome(Err("ServoNotFound", << >>), None, 0)
    ELSE Outcome(Ok(Engine(<< >>, << >>, path)), None, 0)

Real_with_servo_path_NoWhich(path) ==
    IF IsSome(path) /\ path[1] \notin pathExists
    THEN Outcome(Err("ServoNotFound", << >>), None, 0)
    ELSE Outcome(Ok(Engine(<< >>, << >>, path)), None, 0)

\* ServoStyleEngineReal::with_servo_path (both drafts)
Real_with_servo_path(path) ==
    IF ~ServoFound(path)
    THEN Outcome(Err("ServoNotFound", << >>), None, 0)
    ELSE Outcome(Ok(Engine(<< >>, << >>, path)), None, 0)

\* ServoStyleEngineOptimized::with_options; use_daemon and batch_size are
\* stored as given
with_options(path) ==
    IF ~ServoFound(path)
    THEN Outcome(Err("ServoNotFound", << >>), None, 0)
    ELSE Outcome(Ok(Engine(<< >>, << >>, path)), None, 0)

Unit == << >>

add_stylesheet_Replace(self, css) ==
    [self |-> [self EXCEPT !.stylesheets = << css >>], result |-> Ok(Unit)]

\* add_stylesheet: the same in every engine
add_stylesheet(self, css) ==
    [self |-> [self EXCEPT !.stylesheets = Append(@, css)], result |-> Ok(Unit)]

\* set_html: the same in every engine
set_html(self, html) ==
    [self |-> [self EXCEPT !.base_html = html], result |-> Ok(Unit)]

(***************************************************************************)
(* Text operations of the Rust standard library and of serde_json.         *)
(***************************************************************************)
\* the markers Servo's console output is searched for; each is one token
RES == "COMPUTED_STYLE_RESULT:"
RESS == "COMPUTED_STYLES_RESULT:"
ERR == "COMPUTED_STYLE_ERROR:"
COLON == ":"

IsWhitespace(tok) == tok \in { SP, NL, "\t", "\r" }

\* index of the first token of s equal to tok, 0 if there is none
IndexOf(s, tok) ==
    IF \E i \in 1..Len(s) : s[i] = tok
    THEN CHOOSE i \in 1..Len(s) : s[i] = tok /\ \A j \in 1..(i - 1) : s[j] # tok
    ELSE 0

\* str::split(sep) for a separator of one token: all the parts, in order
RECURSIVE Split(_, _)
Split(s, sep) ==
    LET i == IndexOf(s, sep)
    IN  IF i = 0 THEN << s >>
        ELSE << SubSeq(s, 1, i - 1) >> \o Split(SubSeq(s, i + 1, Len(s)), sep)

\* Iterator::nth
nth(parts, n) == IF n + 1 <= Len(parts) THEN Some(parts[n + 1]) ELSE None

\* str::split_once(sep)
split_once(s, sep) ==
    LET i == IndexOf(s, sep)
    IN  IF i = 0 THEN None
        ELSE Some(<< SubSeq(s, 1, i - 1), SubSeq(s, i + 1, Len(s)) >>)

\* str::lines(): split at newlines, no empty last line
RECURSIVE Lines(_)
Lines(text) ==
    LET i == IndexOf(text, NL)
    IN  IF i = 0 THEN (IF Len(text) = 0 THEN << >> ELSE << text >>)
        ELSE << SubSeq(text, 1, i - 1) >> \o Lines(SubSeq(text, i + 1, Len(text)))

RECURSIVE TrimStart(_)
TrimStart(s) ==
    IF Len(s) > 0 /\ IsWhitespace(s[1]) THEN TrimStart(Tail(s)) ELSE s

RECURSIVE TrimEnd(_)
TrimEnd(s) ==
    IF Len(s) > 0 /\ IsWhitespace(s[Len(s)]) THEN TrimEnd(SubSeq(s, 1, Len(s) - 1)) ELSE s

\* str::trim
Trim(s) == TrimEnd(TrimStart(s))

\* JSON values
JString(str) == [type |-> "string", str |-> str]
JNumber == [type |-> "number"]
JNull == [type |-> "null"]
JObject(fields) == [type |-> "object", fields |-> fields]
JBool(b) == [type |-> "bool", bool |-> b]

\* the JSON documents of the model: one token each, with the value it denotes
J_SINGLE == "{\"selector\":\"div\",\"property\":\"color\",\"value\":\"rgb(255, 0, 0)\"}"
J_SINGLE2 == "{\"selector\":\"p\",\"property\":\"font-size\",\"value\":\"20px\"}"
J_ALL == "{\"selector\":\"div\",\"styles\":{\"color\":\"rgb(255, 0, 0)\"}}"
J_NUMBER == "{\"value\":12}"
J_STYLO_VALUE == "{\"id\":\"id-1\",\"success\":true,\"computed_value\":\"rgb(255, 0, 0)\",\"computed_styles\":{\"computed_value\":\"rgb(255, 0, 0)\"}}"
J_STYLO_NOT_FOUND == "{\"id\":\"id-1\",\"success\":false,\"error\":\"Element not found: .missing\"}"

JsonDocuments ==
    [ t \in { J_SINGLE, J_SINGLE2, J_ALL, J_NUMBER, J_STYLO_VALUE, J_STYLO_NOT_FOUND } |->
        CASE t = J_SINGLE ->
                JObject([selector |-> JString("div"), property |-> JString("color"),
                         value |-> JString("rgb(255, 0, 0)")])
          [] t = J_SINGLE2 ->
                JObject([selector |-> JString("p"), property |-> JString("font-size"),
                         value |-> JString("20px")])
          [] t = J_ALL ->
                JObject([selector |-> JString("div"),
                         styles |-> JObject([color |-> JString("rgb(255, 0, 0)")])])
          [] t = J_NUMBER ->
                JObject([value |-> JNumber])
          [] t = J_STYLO_VALUE ->
                JObject([id |-> JString("id-1"), success |-> JBool(TRUE),
                         computed_value |-> JString("rgb(255, 0, 0)"),
                         computed_styles |->
                             JObject([computed_value |-> JString("rgb(255, 0, 0)")])])
          [] t = J_STYLO_NOT_FOUND ->
                JObject([id |-> JString("id-1"), success |-> JBool(FALSE),
                         error |-> JString("Element not found: .missing")]) ]

\* serde_json::from_str::<serde_json::Value>: one document, whitespace around
\* it allowed, nothing else
from_str(text) ==
    LET t == Trim(text)
    IN  IF Len(t) = 1 /\ t[1] \in DOMAIN JsonDocuments
        THEN Ok(JsonDocuments[t[1]])
        ELSE Err("serde_json::Error", << "<serde_json error>" >>)

\* Value's index operator: parsed["key"]
Index(v, key) ==
    IF v.type = "object" /\ key \in DOMAIN v.fields THEN v.fields[key] ELSE JNull

\* Value::as_str and Value::as_object
as_str(v) == IF v.type = "string" THEN Some(v.str) ELSE None
as_object(v) == IF v.type = "object" THEN Some(v.fields) ELSE None

(***************************************************************************)
(* ServoStyleEngineReal.                                                   *)
(*                                                                         *)
(* A run of the Servo executable is an input: run.exit says how the wait   *)
(* for it ended ("completed", "spawn_error", or "timeout" when it is still *)
(* running after 10 seconds), run.stdout and run.stderr what it wrote, and *)
(* run.fault which file operation of the call fails, if any.  Indentation  *)
(* of the generated file is left out: it is whitespace before the first    *)
(* token of a line and no operation on a line reads it.                    *)
(***************************************************************************)
STYLE_OPEN == "<style>"
STYLE_CLOSE == "</style>"
BODY_OPEN == "<body>"
SCRIPT_OPEN == "<script>"

\* the script of create_style_extraction_html for one property
SingleScript(selector, prop) ==
    << NL, "window.addEventListener('load', function() {", NL,
       "try {", NL,
       "var element = document.querySelector('", selector, "');", NL,
       "if (element) {", NL,
       "var computedStyle = window.getComputedStyle(element);", NL,
       "var value = computedStyle.getPropertyValue('", prop, "');", NL,
       "console.log('", RES, "' + JSON.stringify({", NL,
       "selector: '", selector, "',", NL,
       "property: '", prop, "',", NL,
       "value: value", NL,
       "}));", NL,
       "} else {", NL,
       "console.log('", ERR, "Element not found');", NL,
       "}", NL,
       "} catch (e) {", NL,
       "console.log('", ERR, "' + e.message);", NL,
       "}", NL,
       "setTimeout(function() { window.close(); }, 500);", NL,
       "});", NL >>

\* the script of create_style_extraction_html for all properties
AllScript(selector) ==
    << NL, "window.addEventListener('load', function() {", NL,
       "try {", NL,
       "var element = document.querySelector('", selector, "');", NL,
       "if (element) {", NL,
       "var computedStyle = window.getComputedStyle(element);", NL,
       "var styles = {};", NL,
       "for (var i = 0; i < computedStyle.length; i++) {", NL,
       "var propName = computedStyle[i];", NL,
       "styles[propName] = computedStyle.getPropertyValue(propName);", NL,
       "}", NL,
       "console.log('", RESS, "' + JSON.stringify({", NL,
       "selector: '", selector, "',", NL,
       "styles: styles", NL,
       "}));", NL,
       "} else {", NL,
       "console.log('", ERR, "Element not found');", NL,
       "}", NL,
       "} catch (e) {", NL,
       "console.log('", ERR, "' + e.message);", NL,
       "}", NL,
       "setTimeout(function() { window.close(); }, 500);", NL,
       "});", NL >>

\* the page around a stylesheet, a body and a script
Page(combined_css, html, script) ==
    << "<!DOCTYPE html>", NL, "<html>", NL, "<head>", NL, STYLE_OPEN, NL >>
    \o combined_css
    \o << NL, STYLE_CLOSE, NL, "</head>", NL, BODY_OPEN, NL >>
    \o html
    \o << NL, SCRIPT_OPEN, NL >>
    \o script
    \o << NL, "</script>", NL, "</body>", NL, "</html>" >>

create_style_extraction_html(self, selector, property) ==
    LET combined_css == Join(self.stylesheets, << NL >>)
        script == IF IsSome(property) THEN SingleScript(selector, property[1])
                  ELSE AllScript(selector)
    IN  Page(combined_css, self.base_html, script)

TIMESTAMP == "<secs since epoch>"
result_path == << "/tmp/servo_output_", TIMESTAMP, ".txt" >>
parsed_result_path == << "/tmp/servo_parsed_", TIMESTAMP, ".txt" >>

NoResultInOutput ==
    Err("CommunicationError",
        << "No computed style result found in Servo output. Check result file: " >>
        \o parsed_result_path)

\* the loop of parse_servo_output over the lines that are left; the files it
\* writes and the cat it runs are for the log only and their failures ignored
RECURSIVE parse_lines(_)
parse_lines(lines) ==
    IF Len(lines) = 0 THEN NoResultInOutput
    ELSE LET line == Head(lines)
             single == nth(Split(line, RES), 1)
             all == nth(Split(line, RESS), 1)
             error == nth(Split(line, ERR), 1)
         IN  IF Contains(line, << RES >>) /\ IsSome(single)
             THEN Ok(Trim(single[1]))
             ELSE IF Contains(line, << RESS >>) /\ IsSome(all)
             THEN Ok(Trim(all[1]))
             ELSE IF Contains(line, << ERR >>) /\ IsSome(error)
             THEN Err("CommunicationError", << "Servo error: " >> \o error[1])
             ELSE parse_lines(Tail(lines))

parse_servo_output(stdout, stderr) ==
    parse_lines(Lines(stdout) \o Lines(stderr))

NoResultsFound ==
    Err("CommunicationError",
        << "No computed style results found. Check output file: " >> \o result_path)

run_servo_and_extract_styles(html_content, run) ==
    IF run.fault = "tempfile_create"
    THEN Err("CommunicationError", << "Failed to create temp file: ", "<io error>" >>)
    ELSE IF run.fault = "tempfile_write"
    THEN Err("CommunicationError", << "Failed to write temp file: ", "<io error>" >>)
    ELSE IF run.exit = "spawn_error"
    THEN IF run.fault = "result_write"
         THEN Err("ProcessStartError", << "<io error>" >>)
         ELSE Err("CommunicationError", << "Failed to start Servo: ", "<io error>" >>)
    ELSE LET stdout == IF run.exit = "completed" THEN run.stdout ELSE << >>
             stderr == IF run.exit = "completed" THEN run.stderr ELSE << >>
             parsed == parse_servo_output(stdout, stderr)
         IN  IF run.fault = "result_write"
             THEN Err("ProcessStartError", << "<io error>" >>)
             ELSE IF (Len(stdout) # 0 \/ Len(stderr) # 0) /\ parsed.ok
             THEN parsed
             \* the temp file is the page this call wrote
             ELSE IF /\ run.fault # "tempfile_read"
                     /\ \/ Contains(html_content, << RES >>)
                        \/ Contains(html_content, << RESS >>)
             THEN parse_servo_output(html_content, << >>)
             ELSE NoResultsFound

\* the Servo processes a call starts
Real_spawned(run) ==
    IF run.fault \in { "tempfile_create", "tempfile_write" } \/ run.exit = "spawn_error"
    THEN 0 ELSE 1

\* serde_json::from_str::<SingleResult>: an object with a string "value"
from_str_SingleResult(text) ==
    LET parsed == from_str(text)
    IN  IF parsed.ok /\ IsSome(as_str(Index(parsed.value, "value")))
        THEN Ok(as_str(Index(parsed.value, "value"))[1])
        ELSE Err("serde_json::Error", << "<serde_json error>" >>)

\* HashMap<String, String> from a JSON object of strings
StringMap(fields) == [k \in DOMAIN fields |-> fields[k].str]

\* serde_json::from_str::<AllStylesResult>: an object with an object "styles"
\* of strings
from_str_AllStylesResult(text) ==
    LET parsed == from_str(text)
        styles == IF parsed.ok THEN as_object(Index(parsed.value, "styles")) ELSE None
    IN  IF IsSome(styles) /\ \A k \in DOMAIN styles[1] : styles[1][k].type = "string"
        THEN Ok(StringMap(styles[1]))
        ELSE Err("serde_json::Error", << "<serde_json error>" >>)

\* ServoStyleEngineReal::query_servo_process
Real_query_servo_process(self, query, run) ==
    LET html_content == create_style_extraction_html(self, query.selector, query.property)
        result_json == run_servo_and_extract_styles(html_content, run)
    IN  IF ~result_json.ok THEN result_json
        ELSE IF IsSome(query.property)
        THEN LET result == from_str_SingleResult(result_json.value)
             IN  IF ~result.ok
                 THEN Err("CommunicationError",
                          << "JSON parse error: ", "<serde_json error>", ". Raw content: " >>
                          \o result_json.value)
                 ELSE Ok(StyleResponse(query.id, TRUE, Some(result.value), None, None))
        ELSE LET result == from_str_AllStylesResult(result_json.value)
             IN  IF ~result.ok
                 THEN Err("CommunicationError",
                          << "JSON parse error: ", "<serde_json error>" >>)
                 ELSE Ok(StyleResponse(query.id, TRUE, None, Some(result.value), None))

\* ServoStyleEngineReal::get_computed_style
Real_get_computed_style(self, selector, property, run) ==
    LET query == StyleQuery(Uuid(1), self.base_html, Join(self.stylesheets, << NL >>),
                            selector, Some(property), None)
        response == Real_query_servo_process(self, query, run)
        result ==
            IF ~response.ok THEN response
            ELSE IF response.value.success
            THEN IF IsSome(response.value.computed_value)
                 THEN Ok(response.value.computed_value[1])
                 ELSE Err("ComputationError", << "No computed value returned" >>)
            ELSE Err("ComputationError",
                     unwrap_or(response.value.error, << "Unknown error" >>))
    IN  Outcome(result, create_style_extraction_html(self, selector, Some(property)),
                Real_spawned(run))

\* ServoStyleEngineReal::get_all_computed_styles
Real_get_all_computed_styles(self, selector, run) ==
    LET query == StyleQuery(Uuid(1), self.base_html, Join(self.stylesheets, << NL >>),
                            selector, None, None)
        response == Real_query_servo_process(self, query, run)
        result ==
            IF ~response.ok THEN response
            ELSE IF response.value.success
            THEN IF IsSome(response.value.computed_styles)
                 THEN Ok(response.value.computed_styles[1])
                 ELSE Err("ComputationError", << "No computed styles returned" >>)
            ELSE Err("ComputationError",
                     unwrap_or(response.value.error, << "Unknown error" >>))
    IN  Outcome(result, create_style_extraction_html(self, selector, None),
                Real_spawned(run))

\* the wait without the timer: it ends when Servo has exited
wait_ends_NoTimer(run) ==
    \/ run.fault \in { "tempfile_create", "tempfile_write" }
    \/ run.exit \notin { "timeout", "never" }

\* tokio::time::timeout(10 s, Command::output): the wait ends when Servo has
\* exited or could not be started, and after 10 seconds at the latest
wait_ends(run) ==
    \/ run.fault \in { "tempfile_create", "tempfile_write" }
    \/ run.exit \in { "completed", "spawn_error" }
    \/ run.exit \in { "timeout", "never" }

\* the query the client called
Real_call(self, call, run) ==
    IF IsSome(call.property)
    THEN Real_get_computed_style(self, call.selector, call.property[1], run)
    ELSE Real_get_all_computed_styles(self, call.selector, run)

(***************************************************************************)
(* ServoStyleEngineOptimized.                                              *)
(*                                                                         *)
(* SERVO_DAEMON is the global OnceCell, passed to the operators as cell.   *)
(* Faults of a batch run: the temp file, the debug file, the result file,  *)
(* and the start of the daemon (its page cannot be written or its process  *)
(* not spawned).                                                           *)
(***************************************************************************)
\* the JavaScript of create_batch_html for one query
QueryScript(query) ==
    IF IsSome(query.property)
    THEN << NL, "try {", NL,
            "var element = document.querySelector('", query.selector, "');", NL,
            "if (element) {", NL,
            "var computedStyle = window.getComputedStyle(element);", NL,
            "var value = computedStyle.getPropertyValue('", query.property[1], "');", NL,
            "console.log('", RES >> \o query.id \o << COLON, "' + JSON.stringify({", NL,
            "id: '" >> \o query.id \o << "',", NL,
            "selector: '", query.selector, "',", NL,
            "property: '", query.property[1], "',", NL,
            "value: value", NL,
            "}));", NL,
            "} else {", NL,
            "console.log('", ERR >> \o query.id \o << COLON, "Element not found');", NL,
            "}", NL,
            "} catch (e) {", NL,
            "console.log('", ERR >> \o query.id \o << COLON, "' + e.message);", NL,
            "}", NL >>
    ELSE << NL, "try {", NL,
            "var element = document.querySelector('", query.selector, "');", NL,
            "if (element) {", NL,
            "var computedStyle = window.getComputedStyle(element);", NL,
            "var styles = {};", NL,
            "for (var i = 0; i < computedStyle.length; i++) {", NL,
            "var propName = computedStyle[i];", NL,
            "styles[propName] = computedStyle.getPropertyValue(propName);", NL,
            "}", NL,
            "console.log('", RESS >> \o query.id \o << COLON, "' + JSON.stringify({", NL,
            "id: '" >> \o query.id \o << "',", NL,
            "selector: '", query.selector, "',", NL,
            "styles: styles", NL,
            "}));", NL,
            "} else {", NL,
            "console.log('", ERR >> \o query.id \o << COLON, "Element not found');", NL,
            "}", NL,
            "} catch (e) {", NL,
            "console.log('", ERR >> \o query.id \o << COLON, "' + e.message);", NL,
            "}", NL >>

\* a small number in decimal
Decimal(n) == << "0", "1", "2", "3", "4", "5", "6", "7", "8", "9" >>[n + 1]

RECURSIVE js_queries(_)
js_queries(queries) ==
    IF Len(queries) = 0 THEN << >>
    ELSE QueryScript(Head(queries)) \o js_queries(Tail(queries))

create_batch_html(self, queries) ==
    LET combined_css == Join(self.stylesheets, << NL >>)
        script == << NL, "window.addEventListener('load', function() {", NL,
                     "console.log('BATCH_START:", Decimal(Len(queries)), "');", NL >>
                  \o js_queries(queries)
                  \o << NL, "console.log('BATCH_END:", Decimal(Len(queries)), "');", NL,
                        "setTimeout(function() { window.close(); }, 200);", NL,
                        "});", NL >>
    IN  Page(combined_css, self.base_html, script)

NoResultInBatch == << "No result found in batch output" >>

\* the first block of the loop body of parse_batch_output: a
\* COMPUTED_STYLE_RESULT line
single_result(acc, line) ==
    LET parts == nth(Split(line, RES), 1)
        pair == IF IsSome(parts) THEN split_once(parts[1], COLON) ELSE None
        parsed == IF IsSome(pair) THEN from_str(pair[1][2]) ELSE Err("none", << >>)
        value == IF parsed.ok THEN as_str(Index(parsed.value, "value")) ELSE None
    IN  IF Contains(line, << RES >>) /\ IsSome(value)
        THEN [responses |-> Append(acc.responses,
                  StyleResponse(pair[1][1], TRUE, Some(value[1]), None, None)),
              processed_ids |-> acc.processed_ids \cup { pair[1][1] }]
        ELSE acc

\* a style value that is no string becomes ""
StylesMap(fields) ==
    [k \in DOMAIN fields |-> unwrap_or(as_str(fields[k]), "")]

\* the second block: a COMPUTED_STYLES_RESULT line
all_result(acc, line) ==
    LET parts == nth(Split(line, RESS), 1)
        pair == IF IsSome(parts) THEN split_once(parts[1], COLON) ELSE None
        parsed == IF IsSome(pair) THEN from_str(pair[1][2]) ELSE Err("none", << >>)
        styles == IF parsed.ok THEN as_object(Index(parsed.value, "styles")) ELSE None
    IN  IF Contains(line, << RESS >>) /\ IsSome(styles)
        THEN [responses |-> Append(acc.responses,
                  StyleResponse(pair[1][1], TRUE, None, Some(StylesMap(styles[1])), None)),
              processed_ids |-> acc.processed_ids \cup { pair[1][1] }]
        ELSE acc

\* the first loop of parse_batch_output
RECURSIVE batch_lines(_, _)
batch_lines(acc, lines) ==
    IF Len(lines) = 0 THEN acc
    ELSE batch_lines(all_result(single_result(acc, Head(lines)), Head(lines)),
                     Tail(lines))

\* the second loop: an error response for each query not processed
RECURSIVE unprocessed(_, _)
unprocessed(processed_ids, queries) ==
    IF Len(queries) = 0 THEN << >>
    ELSE (IF Head(queries).id \notin processed_ids
          THEN << StyleResponse(Head(queries).id, FALSE, None, None,
                                Some(NoResultInBatch)) >>
          ELSE << >>)
         \o unprocessed(processed_ids, Tail(queries))

\* the responses after both loops, acc being the state after the first
with_unprocessed(acc, queries) ==
    Ok(acc.responses \o unprocessed(acc.processed_ids, queries))

parse_batch_output_NoErrors(stdout, stderr, queries) ==
    Ok(batch_lines([responses |-> << >>, processed_ids |-> { }],
                   Lines(stdout) \o Lines(stderr)).responses)

\* ServoStyleEngineOptimized::parse_batch_output
parse_batch_output(stdout, stderr, queries) ==
    with_unprocessed(batch_lines([responses |-> << >>, processed_ids |-> { }],
                                 Lines(stdout) \o Lines(stderr)),
                     queries)

\* what a batch call returns with the state of the daemon cell afterwards
BatchOutcome(result, sent, spawned, cell) ==
    [result |-> result, sent |-> sent, spawned |-> spawned, cell |-> cell]

\* process_batch_standalone once html_content is built
run_batch(html_content, queries, run) ==
        IF run.fault = "tempfile_create"
        THEN Outcome(Err("CommunicationError",
                         << "Failed to create temp file: ", "<io error>" >>),
                     html_content, 0)
        ELSE IF run.fault = "tempfile_write"
        THEN Outcome(Err("CommunicationError",
                         << "Failed to write temp file: ", "<io error>" >>),
                     html_content, 0)
        ELSE IF run.fault = "debug_write"
        THEN Outcome(Err("ProcessStartError", << "<io error>" >>), html_content, 0)
        ELSE IF run.exit = "spawn_error"
        THEN Outcome(Err("CommunicationError",
                         << "Failed to start Servo: ", "<io error>" >>),
                     html_content, 0)
        ELSE IF run.exit = "timeout"
        THEN Outcome(Err("CommunicationError", << "Servo batch timed out" >>),
                     html_content, 1)
        ELSE IF run.fault = "result_write"
        THEN Outcome(Err("ProcessStartError", << "<io error>" >>), html_content, 1)
        ELSE Outcome(parse_batch_output(run.stdout, run.stderr, queries),
                     html_content, 1)

process_batch_standalone(self, queries, run) ==
    run_batch(create_batch_html(self, queries), queries, run)

\* ensure_daemon: get_or_try_init starts a daemon only while the cell is empty
ensure_daemon(daemon, run, cell) ==
    IF ~daemon THEN [result |-> Ok(Unit), spawned |-> 0, cell |-> cell]
    ELSE IF cell THEN [result |-> Ok(Unit), spawned |-> 0, cell |-> TRUE]
    ELSE IF run.fault = "daemon_start"
    THEN [result |-> Err("ProcessStartError", << "<io error>" >>), spawned |-> 0,
          cell |-> FALSE]
    ELSE [result |-> Ok(Unit), spawned |-> 1, cell |-> TRUE]

\* the outcome of a standalone batch that follows ensure_daemon
after_daemon(ensured, out) ==
    BatchOutcome(out.result, out.sent, ensured.spawned + out.spawned, ensured.cell)

\* the `?` after ensure_daemon: its error is returned and the batch not run
daemon_then(ensured, out) ==
    IF ~ensured.result.ok
    THEN BatchOutcome(ensured.result, None, ensured.spawned, ensured.cell)
    ELSE after_daemon(ensured, out)

process_batch_with_daemon_Unchecked(self, daemon, queries, run, cell) ==
    after_daemon(ensure_daemon(daemon, run, cell),
                 process_batch_standalone(self, queries, run))

process_batch_with_daemon(self, daemon, queries, run, cell) ==
    daemon_then(ensure_daemon(daemon, run, cell),
                process_batch_standalone(self, queries, run))

process_batch(self, daemon, queries, run, cell) ==
    IF daemon
    THEN process_batch_with_daemon(self, daemon, queries, run, cell)
    ELSE after_daemon([spawned |-> 0, cell |-> cell],
                      process_batch_standalone(self, queries, run))

\* the first response of a batch of one query, as the single-query methods
\* of ServoStyleEngineOptimized read it
first_response(responses, which, missing) ==
    IF Len(responses) = 0
    THEN Err("ComputationError", << "No response received" >>)
    ELSE LET response == Head(responses)
         IN  IF response.success
             THEN IF IsSome(response[which]) THEN Ok(response[which][1])
                  ELSE Err("ComputationError", missing)
             ELSE Err("ComputationError",
                      unwrap_or(response.error, << "Unknown error" >>))

\* ServoStyleEngineOptimized::get_computed_style
\* the `?` after process_batch, then the reading of the first response
read_first(out, which, missing) ==
    IF ~out.result.ok THEN out
    ELSE [out EXCEPT !.result = first_response(out.result.value, which, missing)]

Opt_get_computed_style(self, daemon, selector, property, run, cell) ==
    read_first(process_batch(self, daemon,
                             << StyleQuery(Uuid(1), self.base_html,
                                           Join(self.stylesheets, << NL >>),
                                           selector, Some(property), None) >>,
                             run, cell),
               "computed_value", << "No computed value returned" >>)

\* ServoStyleEngineOptimized::get_all_computed_styles
Opt_get_all_computed_styles(self, daemon, selector, run, cell) ==
    read_first(process_batch(self, daemon,
                             << StyleQuery(Uuid(1), self.base_html,
                                           Join(self.stylesheets, << NL >>),
                                           selector, None, None) >>,
                             run, cell),
               "computed_styles", << "No computed styles returned" >>)

\* the queries compute_styles_batch builds from its requests; a request is
\* << selector, property >>
batch_queries(self, requests) ==
    [i \in 1..Len(requests) |->
        StyleQuery(Uuid(i), self.base_html, Join(self.stylesheets, << NL >>),
                   requests[i][1], requests[i][2], None)]

\* serde_json::to_string of a map: a String, kept apart from a computed value
OkJson(styles) == [ok |-> TRUE, json |-> styles]

\* format!("query_{}", i)
QueryName(i) == "query_" \o Decimal(i)

\* the second loop of compute_styles_batch: the i-th response (from 1) is
\* paired with the selector of the i-th request
batch_results(responses, requests) ==
    [i \in 1..Len(responses) |->
        LET response == responses[i]
            selector == IF i <= Len(requests) THEN requests[i][1] ELSE QueryName(i - 1)
            result ==
                IF response.success
                THEN IF IsSome(response.computed_value)
                     THEN Ok(response.computed_value[1])
                     ELSE IF IsSome(response.computed_styles)
                     THEN OkJson(response.computed_styles[1])
                     ELSE Err("ComputationError", << "No result data" >>)
                ELSE Err("ComputationError",
                         unwrap_or(response.error, << "Unknown error" >>))
        IN  << selector, result >>]

\* ServoStyleEngineOptimized::compute_styles_batch
\* the `?` after process_batch, then the second loop
pair_results(out, requests) ==
    IF ~out.result.ok THEN out
    ELSE [out EXCEPT !.result = Ok(batch_results(out.result.value, requests))]

compute_styles_batch(self, daemon, requests, run, cell) ==
    pair_results(process_batch(self, daemon, batch_queries(self, requests), run, cell),
                 requests)

(***************************************************************************)
(* ServoStyleEngine under real integration: query_real_servo_process.      *)
(*                                                                         *)
(* Command::output blocks until Servo has exited; run.exit = "never" is a  *)
(* Servo that does not exit.                                               *)
(***************************************************************************)
STYLO == "STYLO_RESULT:"

\* the page of query_real_servo_process
real_page(query) ==
    << STYLE_OPEN, NL >> \o query.css \o << NL, STYLE_CLOSE, NL, BODY_OPEN, NL >>
    \o query.html
    \o << NL, SCRIPT_OPEN, NL,
          "const element = document.querySelector('", query.selector, "');", NL,
          "if ('" >> \o query.property \o << "' !== '') {", NL,
          "result.computed_value = styles.getPropertyValue('" >>
    \o query.property \o << "');", NL,
          "console.log('", STYLO, "' + JSON.stringify({ id: '" >> \o query.id
    \o << "', success: true", NL,
          "console.log('", STYLO, "' + JSON.stringify({ id: '" >> \o query.id
    \o << "', success: false, error: 'Element not found: ", query.selector, "'", NL,
          "console.log('", STYLO, "' + JSON.stringify({ id: '" >> \o query.id
    \o << "', success: false, error: 'JavaScript error: ' + e.message", NL >>

\* an optional string field of a JSON object: absent and null are None
OptionalString(v) == v.type \in { "null", "string" }
OptionalStringMap(v) ==
    \/ v.type = "null"
    \/ v.type = "object" /\ \A k \in DOMAIN v.fields : v.fields[k].type = "string"

\* serde_json::from_str::<StyleResponse>
from_str_StyleResponse(text) ==
    LET parsed == from_str(text)
    IN  IF /\ parsed.ok
           /\ parsed.value.type = "object"
           /\ Index(parsed.value, "id").type = "string"
           /\ Index(parsed.value, "success").type = "bool"
           /\ OptionalString(Index(parsed.value, "computed_value"))
           /\ OptionalStringMap(Index(parsed.value, "computed_styles"))
           /\ OptionalString(Index(parsed.value, "error"))
        THEN Ok(StyleResponse(
                 << Index(parsed.value, "id").str >>,
                 Index(parsed.value, "success").bool,
                 as_str(Index(parsed.value, "computed_value")),
                 IF Index(parsed.value, "computed_styles").type = "object"
                 THEN Some(StringMap(Index(parsed.value, "computed_styles").fields))
                 ELSE None,
                 IF Index(parsed.value, "error").type = "string"
                 THEN Some(<< Index(parsed.value, "error").str >>)
                 ELSE None))
        ELSE Err("ProcessError",
                 << "Failed to parse Servo response: ", "<serde_json error>" >>)

\* the loop over stdout.lines()
RECURSIVE first_stylo_result(_)
first_stylo_result(lines) ==
    IF Len(lines) = 0 THEN None
    ELSE IF Contains(Head(lines), << STYLO >>)
    THEN Some(from_str_StyleResponse(
                  unwrap_or(nth(Split(Head(lines), STYLO), 1), << >>)))
    ELSE first_stylo_result(Tail(lines))

NoValidResponse(stdout, stderr) ==
    Err("ProcessError",
        << "No valid response from Servo. Stdout: " >> \o stdout
        \o << ", Stderr: " >> \o stderr)

\* ServoStyleEngine::query_real_servo_process, for a run whose output
\* Command::output has collected
query_real_servo_process(query, run) ==
    IF run.fault = "tempfile_create"
    THEN Err("ProcessError", << "Failed to create temp file: ", "<io error>" >>)
    ELSE IF run.fault = "tempfile_write"
    THEN Err("ProcessError", << "Failed to write temp file: ", "<io error>" >>)
    ELSE IF run.exit = "spawn_error"
    THEN Err("ProcessError", << "Failed to run Servo: ", "<io error>" >>)
    ELSE IF IsSome(first_stylo_result(Lines(run.stdout)))
    THEN first_stylo_result(Lines(run.stdout))[1]
    ELSE NoValidResponse(run.stdout, run.stderr)

\* whether the call gets past Command::output: it does not start Servo after
\* a failed file operation, and else waits until Servo has exited
output_returns(run) ==
    \/ run.fault \in { "tempfile_create", "tempfile_write" }
    \/ run.exit # "never"

\* the Servo processes the call starts
SimReal_spawned(run) ==
    IF run.fault \in { "tempfile_create", "tempfile_write" } \/ run.exit = "spawn_error"
    THEN 0 ELSE 1

\* what get_computed_style makes of the response of query_servo
computed_value_of(response) ==
    IF ~response.ok THEN response
    ELSE IF response.value.success
    THEN IF IsSome(response.value.computed_value)
         THEN Ok(response.value.computed_value[1])
         ELSE Err("ProcessError", << "No computed value in response" >>)
    ELSE Err("ProcessError", unwrap_or(response.value.error, << "Unknown error" >>))

\* ServoStyleEngine::get_computed_style when servo_config.toml enables real
\* integration
SimReal_get_computed_style(self, selector, property, pseudo_element, run) ==
    Outcome(computed_value_of(
                query_real_servo_process(
                    StyleQuery(Uuid(1), self.base_html,
                               Join(self.stylesheets, << NL >>),
                               selector, Some(property), pseudo_element),
                    run)),
            real_page(StyleQuery(Uuid(1), self.base_html,
                                 Join(self.stylesheets, << NL >>),
                                 selector, Some(property), pseudo_element)),
            SimReal_spawned(run))

(***************************************************************************)
(* ServoStyleEngineReal of the linux-ready draft: one Servo child that is  *)
(* sent a query per line on stdin and answers with a line on stdout.       *)
(*                                                                         *)
(* processes[n] is the state of the n-th child spawned, "running" or       *)
(* "exited"; servo_process is the child the engine holds.  A reply is the  *)
(* line Servo answers with, or Eof when Servo closes stdout and exits      *)
(* without an answer.                                                      *)
(***************************************************************************)
Eof == << >>

\* what the engine holds and the children there are
Children(held, procs) == [servo_process |-> held, processes |-> procs]

\* ensure_servo_process: spawns only when the field is None
ensure_servo_process(held, procs, spawn_ok) ==
    IF held = None
    THEN IF spawn_ok
         THEN [ok |-> TRUE,
               children |-> Children(Some(Len(procs) + 1), Append(procs, "running"))]
         ELSE [ok |-> FALSE, children |-> Children(held, procs)]
    ELSE [ok |-> TRUE, children |-> Children(held, procs)]

\* serde_json::from_str::<StyleResponse>(response_line.trim()) with the ?
\* operator
Linux_from_str(line) ==
    IF from_str_StyleResponse(Trim(line)).ok
    THEN from_str_StyleResponse(Trim(line))
    ELSE Err("SerializationError", << "<serde_json error>" >>)

\* the part of query_servo_process after ensure_servo_process: the write to
\* the stdin of a child that has exited fails, else the reply is read
exchange(children, reply) ==
    IF children.processes[children.servo_process[1]] = "exited"
    THEN [response |-> Err("ProcessStartError", << "<io error>" >>),
          children |-> children]
    ELSE IF reply = Eof
    THEN [response |-> Linux_from_str(<< >>),
          children |-> [children EXCEPT
                            !.processes[children.servo_process[1]] = "exited"]]
    ELSE [response |-> Linux_from_str(reply), children |-> children]

\* ServoStyleEngineReal::query_servo_process
Linux_query_servo_process(held, procs, spawn_ok, reply) ==
    IF ~ensure_servo_process(held, procs, spawn_ok).ok
    THEN [response |-> Err("ProcessStartError", << "<io error>" >>),
          children |-> Children(held, procs)]
    ELSE exchange(ensure_servo_process(held, procs, spawn_ok).children, reply)

\* get_computed_style and get_all_computed_styles: from the response to the
\* result
Linux_result(response, property) ==
    IF ~response.ok THEN response
    ELSE IF response.value.success
    THEN IF IsSome(property)
         THEN IF IsSome(response.value.computed_value)
              THEN Ok(response.value.computed_value[1])
              ELSE Err("ComputationError", << "No computed value returned" >>)
         ELSE IF IsSome(response.value.computed_styles)
              THEN Ok(response.value.computed_styles[1])
              ELSE Err("ComputationError", << "No computed styles returned" >>)
    ELSE Err("ComputationError", unwrap_or(response.value.error, << "Unknown error" >>))

(***************************************************************************)
(* The Stylo adapter: StyloElement and StyloNode.                          *)
(***************************************************************************)
\* no element built yet
NoElement == [tag_name |-> "none"]

\* StyloElement::new
StyloElement_new(tag_name) ==
    [tag_name |-> tag_name, attributes |-> EmptyMap, parent |-> None,
     children |-> << >>, id |-> None, classes |-> << >>]

\* str::split_whitespace: the maximal runs of tokens that are no whitespace
RECURSIVE split_whitespace_from(_, _)
split_whitespace_from(s, word) ==
    IF Len(s) = 0 THEN (IF Len(word) = 0 THEN << >> ELSE << word >>)
    ELSE IF IsWhitespace(Head(s))
    THEN (IF Len(word) = 0 THEN << >> ELSE << word >>)
         \o split_whitespace_from(Tail(s), << >>)
    ELSE split_whitespace_from(Tail(s), Append(word, Head(s)))

split_whitespace(s) == split_whitespace_from(s, << >>)

\* with_attribute without the else-if branch for "class"
with_attribute_NoClass(self, name, value) ==
    [self EXCEPT !.attributes = Insert(self.attributes, name, value),
                 !.id = IF name = "id" THEN Some(value) ELSE @]

\* StyloElement::with_attribute
with_attribute(self, name, value) ==
    [self EXCEPT !.attributes = Insert(self.attributes, name, value),
                 !.id = IF name = "id" THEN Some(value) ELSE @,
                 !.classes = IF name # "id" /\ name = "class"
                             THEN split_whitespace(value) ELSE @]

\* SelectorsElement::has_id and has_class
has_id(self, id) == IsSome(self.id) /\ self.id[1] = id
has_class(self, name) == \E i \in 1..Len(self.classes) : self.classes[i] = name

\* StyloNode::new_element; every document of the model is the same
StyloNode_new_element(e) == [element |-> Some(e)]

\* TNode for StyloNode
parent_node(node) ==
    IF ~IsSome(node.element) \/ ~IsSome(node.element[1].parent) THEN None
    ELSE Some(StyloNode_new_element(node.element[1].parent[1]))

first_child(node) ==
    IF ~IsSome(node.element) \/ Len(node.element[1].children) = 0 THEN None
    ELSE Some(StyloNode_new_element(Head(node.element[1].children)))

last_child(node) ==
    IF ~IsSome(node.element) \/ Len(node.element[1].children) = 0 THEN None
    ELSE Some(StyloNode_new_element(
                  node.element[1].children[Len(node.element[1].children)]))

prev_sibling(node) == None

next_sibling_ViaParent(node) == parent_node(node)

next_sibling(node) == None

\* SelectorsElement for StyloElement
prev_sibling_element(self) == None
next_sibling_element(self) == None

\* TElement::traversal_children
traversal_children(self) ==
    [i \in 1..Len(self.children) |-> StyloNode_new_element(self.children[i])]

\* the nodes a client visits from an optional node by next_sibling
RECURSIVE sibling_walk(_)
sibling_walk(node) ==
    IF ~IsSome(node) THEN << >>
    ELSE << node[1] >> \o sibling_walk(next_sibling(node[1]))

(***************************************************************************)
(* Inputs.                                                                 *)
(***************************************************************************)
Paths == { "/opt/servo/servo" }
PathOptions == { None } \cup { Some(p) : p \in Paths }

Selectors == { "div", ".missing" }
Properties == { "color", "z-index", "width" }
PseudoElements == { None, Some("::before") }

HtmlTexts == { << "<div>Hello</div>" >>, << "<p>", NL, "</p>" >> }

\* stylesheets of the simulation: with and without each needle, a needle
\* cut in two sheets, and a needle inside a longer declaration
SimCssTexts ==
    { << "color: ", "red" >>,
      << "color: " >>,
      << "red" >>,
      << "background-", "color: ", "red" >>,
      << "background-", "color: ", "yellow" >>,
      << "font-size: ", "24px" >> }

CssTexts == { << "color: ", "red" >>, << "p {", NL, "}" >> }

\* lines Servo may write: a log line, result lines (bare, and with a prefix
\* and blanks around the JSON), an error line, a line with the marker twice,
\* a line with two kinds of marker, a result line that holds no JSON
ServoLines ==
    { << "[INFO] page loaded" >>,
      << RES, J_SINGLE >>,
      << "console: ", RES, SP, J_SINGLE, SP >>,
      << RESS, J_ALL >>,
      << ERR, "Element not found" >>,
      << RES, J_SINGLE, RES, "'}" >>,
      << ERR, "x", RESS, J_ALL >>,
      << RES, "undefined" >> }

\* the text of a sequence of lines, each ended by a newline
RECURSIVE Text(_)
Text(lines) ==
    IF Len(lines) = 0 THEN << >> ELSE Head(lines) \o << NL >> \o Text(Tail(lines))

\* lines Servo may write for a batch whose queries are id-1, id-2, ...: a
\* log line, results of the first and of the second query, an all-styles
\* result, an error line, a result that holds no JSON
BatchLines ==
    { << "BATCH_START:2" >>,
      << RES >> \o Uuid(1) \o << COLON, J_SINGLE >>,
      << RES >> \o Uuid(2) \o << COLON, J_SINGLE2 >>,
      << RESS >> \o Uuid(1) \o << COLON, J_ALL >>,
      << ERR >> \o Uuid(1) \o << COLON, "Element not found" >>,
      << RES >> \o Uuid(2) \o << COLON, "undefined" >> }

Requests == { << "div", Some("color") >>, << "p", None >> }

\* lines Servo may write under real integration: a log line, a value, the
\* report that the selector matched nothing, a value behind a prefix, a
\* result that holds no JSON
StyloLines ==
    { << "[INFO] page loaded" >>,
      << STYLO, J_STYLO_VALUE >>,
      << STYLO, J_STYLO_NOT_FOUND >>,
      << "console: ", STYLO, SP, J_STYLO_VALUE >>,
      << STYLO, "undefined" >> }

\* the replies of the child of the linux-ready engine
LinuxReplies ==
    { Eof,
      << J_STYLO_VALUE, NL >>,
      << J_STYLO_NOT_FOUND, NL >>,
      << "undefined", NL >> }

\* the adapter's inputs
TagNames == { "div", "p" }
AttrNames == { "id", "class", "title" }
AttrValues == { << "main" >>, << "a", SP, "b" >>, << SP, "b", SP, SP, "c-", "d", SP >>,
                << >> }
ChildElements ==
    { StyloElement_new("span"),
      with_attribute(StyloElement_new("li"), "class", << "item" >>),
      with_attribute(StyloElement_new("li"), "id", << "last" >>) }

SeqsUpTo(S, n) == UNION { [1..k -> S] : k \in 0..n }

Faults == { "none", "tempfile_create", "tempfile_write", "result_write", "tempfile_read" }

BatchFaults ==
    { "none", "tempfile_create", "tempfile_write", "debug_write", "result_write",
      "daemon_start" }

Run(exit, stdout, stderr, fault) ==
    [exit |-> exit, stdout |-> stdout, stderr |-> stderr, fault |-> fault]

NoRun == Run("none", << >>, << >>, "none")

\* every way a run can end without output, with every fault; and the
\* completed runs that wrote at most n lines in all
Runs(n) ==
    { Run(exit, << >>, << >>, fault) :
        exit \in { "completed", "spawn_error", "timeout" }, fault \in Faults }
    \cup
    { Run("completed", Text(SubSeq(ls, 1, Min(k, Len(ls)))),
                       Text(SubSeq(ls, Min(k, Len(ls)) + 1, Len(ls))), fault) :
        ls \in SeqsUpTo(ServoLines, n), k \in 0..n, fault \in { "none", "tempfile_read" } }

BatchRuns(n) ==
    { Run(exit, << >>, << >>, fault) :
        exit \in { "completed", "spawn_error", "timeout" }, fault \in BatchFaults }
    \cup
    { Run("completed", Text(SubSeq(ls, 1, Min(k, Len(ls)))),
                       Text(SubSeq(ls, Min(k, Len(ls)) + 1, Len(ls))), fault) :
        ls \in SeqsUpTo(BatchLines, n), k \in 0..n, fault \in { "none", "daemon_start" } }

\* runs of Servo under real integration of ServoStyleEngine: the file
\* operations fail, Servo cannot be started, exits with at most n lines on
\* stdout and perhaps a line on stderr, or never exits
StyloRuns(n) ==
    { Run(exit, << >>, << >>, fault) :
        exit \in { "completed", "never" },
        fault \in { "none", "tempfile_create", "tempfile_write" } }
    \cup { Run("spawn_error", << >>, << >>, "none") }
    \cup
    { Run("completed", Text(ls), stderr, "none") :
        ls \in SeqsUpTo(StyloLines, n), stderr \in { << >>, << "warning", NL >> } }

\* runs of ServoStyleEngineReal that end in every way, with every fault, and
\* runs in which Servo wrote a result and then exited, stayed longer than 10
\* seconds, or never exits
WaitRuns ==
    { Run(exit, << >>, << >>, fault) :
        exit \in { "completed", "spawn_error", "timeout", "never" }, fault \in Faults }
    \cup
    { Run(exit, Text(<< << RES, J_SINGLE >> >>), << >>, "none") :
        exit \in { "completed", "timeout", "never" } }

\* a few runs, for the specification of all engines
FewRuns ==
    { Run("completed", Text(<< << RES, J_SINGLE >> >>), << >>, "none"),
      Run("timeout", << >>, << >>, "none") }

(***************************************************************************)
(* Actions.                                                                *)
(***************************************************************************)
envVars == << pathExists, servoOnPath, enable_real_integration, servo >>
domVars == << element, domCall >>
procVars == << pending, servo_process, processes >>
NoCall == [op |-> "none"]
selfVars == << kind, base_html, stylesheets, servo_path, use_daemon >>
logVars == << addLog, htmlLog >>

SetSelf(e) ==
    /\ base_html' = e.base_html
    /\ stylesheets' = e.stylesheets
    /\ servo_path' = e.servo_path

\* a constructor call: the engine exists afterwards iff it returned Ok
Construct(k, op, path, daemon, out) ==
    /\ kind = "none"
    /\ lastCall' = [op |-> op, engine |-> k, path |-> path, result |-> out.result,
                    spawned |-> out.spawned]
    /\ IF out.result.ok
       THEN /\ kind' = k
            /\ SetSelf(out.result.value)
            /\ use_daemon' = daemon
       ELSE UNCHANGED selfVars
    /\ UNCHANGED << envVars, domVars, procVars, SERVO_DAEMON, logVars >>

NewSim == Construct("sim", "new", None, FALSE, Sim_new)

WithServoPathSim ==
    \E path \in PathOptions :
        Construct("sim", "with_servo_path", path, FALSE, Sim_with_servo_path(path))

WithServoPathReal ==
    \E path \in PathOptions :
        Construct("real", "with_servo_path", path, FALSE, Real_with_servo_path(path))

WithServoPathLinuxReady ==
    \E path \in PathOptions :
        Construct("linux", "with_servo_path", path, FALSE, Real_with_servo_path(path))

WithOptions ==
    \E path \in PathOptions, daemon \in BOOLEAN :
        Construct("opt", "with_options", path, daemon, with_options(path))

AddStylesheet(texts) ==
    /\ kind # "none"
    /\ pending = NoCall
    /\ Len(stylesheets) < MaxSheets
    /\ \E css \in texts :
        LET out == add_stylesheet(Self, css)
        IN  /\ SetSelf(out.self)
            /\ addLog' = Append(addLog, css)
            /\ lastCall' = [op |-> "add_stylesheet", engine |-> kind, css |-> css,
                            result |-> out.result]
    /\ UNCHANGED << envVars, domVars, procVars, kind, use_daemon, SERVO_DAEMON, htmlLog >>

SetHtml ==
    /\ kind # "none"
    /\ pending = NoCall
    /\ \E html \in HtmlTexts :
        LET out == set_html(Self, html)
        IN  /\ SetSelf(out.self)
            /\ htmlLog' = html
            /\ lastCall' = [op |-> "set_html", engine |-> kind, html |-> html,
                            result |-> out.result]
    /\ UNCHANGED << envVars, domVars, procVars, kind, use_daemon, SERVO_DAEMON, addLog >>

\* a query call: the engine is left as it was
Query(op, selector, property, run, out) ==
    /\ lastCall' = [op |-> op, engine |-> kind, selector |-> selector,
                    property |-> property, run |-> run, result |-> out.result,
                    sent |-> out.sent, spawned |-> out.spawned]
    /\ UNCHANGED << envVars, domVars, procVars, selfVars, SERVO_DAEMON, logVars >>

SimGetComputedStyle ==
    /\ kind = "sim"
    /\ ~enable_real_integration
    /\ \E selector \in Selectors, property \in Properties, pseudo \in PseudoElements :
        Query("get_computed_style", selector, Some(property), NoRun,
              Sim_get_computed_style(Self, selector, property, pseudo))

SimGetAllComputedStyles ==
    /\ kind = "sim"
    /\ ~enable_real_integration
    /\ \E selector \in Selectors, pseudo \in PseudoElements :
        Query("get_all_computed_styles", selector, None, NoRun,
              Sim_get_all_computed_styles(Self, selector, pseudo))

RealGetComputedStyle ==
    /\ kind = "real"
    /\ \E selector \in Selectors, property \in { "color" } :
        Query("get_computed_style", selector, Some(property), servo,
              Real_get_computed_style(Self, selector, property, servo))

RealGetAllComputedStyles ==
    /\ kind = "real"
    /\ \E selector \in Selectors :
        Query("get_all_computed_styles", selector, None, servo,
              Real_get_all_computed_styles(Self, selector, servo))

\* parse_servo_output on its own, on what a completed run wrote
ParseServoOutput ==
    /\ kind = "real"
    /\ servo.exit = "completed"
    /\ lastCall' = [op |-> "parse_servo_output", engine |-> kind,
                    stdout |-> servo.stdout, stderr |-> servo.stderr,
                    result |-> parse_servo_output(servo.stdout, servo.stderr)]
    /\ UNCHANGED << envVars, domVars, procVars, selfVars, SERVO_DAEMON, logVars >>

\* a call of ServoStyleEngineOptimized: the daemon cell may be filled
BatchCall(op, selector, property, requests, out) ==
    /\ lastCall' = [op |-> op, engine |-> kind, selector |-> selector,
                    property |-> property, requests |-> requests, run |-> servo,
                    result |-> out.result, sent |-> out.sent, spawned |-> out.spawned,
                    daemon_before |-> SERVO_DAEMON]
    /\ SERVO_DAEMON' = out.cell
    /\ UNCHANGED << envVars, domVars, procVars, selfVars, logVars >>

OptGetComputedStyle ==
    /\ kind = "opt"
    /\ \E selector \in Selectors, property \in { "color" } :
        BatchCall("get_computed_style", selector, Some(property),
                  << << selector, Some(property) >> >>,
                  Opt_get_computed_style(Self, use_daemon, selector, property, servo,
                                         SERVO_DAEMON))

OptGetAllComputedStyles ==
    /\ kind = "opt"
    /\ \E selector \in Selectors :
        BatchCall("get_all_computed_styles", selector, None,
                  << << selector, None >> >>,
                  Opt_get_all_computed_styles(Self, use_daemon, selector, servo,
                                              SERVO_DAEMON))

ComputeStylesBatch ==
    /\ kind = "opt"
    /\ \E requests \in SeqsUpTo(Requests, MaxBatch) :
        BatchCall("compute_styles_batch", "", None, requests,
                  compute_styles_batch(Self, use_daemon, requests, servo, SERVO_DAEMON))

\* process_batch on its own, on the queries of a batch of requests
ProcessBatch ==
    /\ kind = "opt"
    /\ \E requests \in SeqsUpTo(Requests, MaxBatch) :
        BatchCall("process_batch", "", None, requests,
                  process_batch(Self, use_daemon, batch_queries(Self, requests), servo,
                                SERVO_DAEMON))

\* parse_batch_output on its own, on what a completed run wrote
ParseBatchOutput ==
    /\ kind = "opt"
    /\ servo.exit = "completed"
    /\ \E requests \in SeqsUpTo(Requests, MaxBatch) :
        lastCall' = [op |-> "parse_batch_output", engine |-> kind,
                     requests |-> requests, run |-> servo,
                     result |-> parse_batch_output(servo.stdout, servo.stderr,
                                                   batch_queries(Self, requests))]
    /\ UNCHANGED << envVars, domVars, procVars, selfVars, SERVO_DAEMON, logVars >>

\* ServoStyleEngine::get_computed_style under real integration, up to the
\* call of Command::output
SimRealBegin ==
    /\ kind = "sim"
    /\ enable_real_integration
    /\ pending = NoCall
    /\ \E selector \in Selectors, property \in { "color" }, pseudo \in PseudoElements :
        pending' = [op |-> "get_computed_style", selector |-> selector,
                    property |-> property, pseudo_element |-> pseudo]
    /\ UNCHANGED << envVars, domVars, selfVars, SERVO_DAEMON, logVars, lastCall,
                    servo_process, processes >>

\* the return of the call that waited: the engine is left as it was
Returned(property, run, out) ==
    /\ lastCall' = [op |-> pending.op, engine |-> kind, selector |-> pending.selector,
                    property |-> property, run |-> run, result |-> out.result,
                    sent |-> out.sent, spawned |-> out.spawned]
    /\ pending' = NoCall
    /\ UNCHANGED << envVars, domVars, selfVars, SERVO_DAEMON, logVars,
                    servo_process, processes >>

\* the rest of the call, from the return of Command::output
SimRealReturn ==
    /\ kind = "sim"
    /\ pending # NoCall
    /\ output_returns(servo)
    /\ Returned(Some(pending.property), servo,
                SimReal_get_computed_style(Self, pending.selector, pending.property,
                                           pending.pseudo_element, servo))

\* ServoStyleEngineReal::get_computed_style and get_all_computed_styles, up
\* to the wait for Servo
RealBegin ==
    /\ kind = "real"
    /\ pending = NoCall
    /\ \E selector \in Selectors, property \in { None, Some("color") } :
        pending' = [op |-> IF IsSome(property) THEN "get_computed_style"
                           ELSE "get_all_computed_styles",
                    selector |-> selector, property |-> property]
    /\ UNCHANGED << envVars, domVars, selfVars, SERVO_DAEMON, logVars, lastCall,
                    servo_process, processes >>

\* the rest of the call, from the end of the wait
RealReturn ==
    /\ kind = "real"
    /\ pending # NoCall
    /\ wait_ends(servo)
    /\ Returned(pending.property, servo, Real_call(Self, pending, servo))

\* a query of the linux-ready engine, with what became of the children
LinuxQuery(op, selector, property, out) ==
    /\ lastCall' = [op |-> op, engine |-> kind, selector |-> selector,
                    property |-> property, run |-> NoRun,
                    result |-> Linux_result(out.response, property),
                    sent |-> Some(StyleQuery(Uuid(1), base_html,
                                             Join(stylesheets, << NL >>),
                                             selector, property, None)),
                    spawned |-> Len(out.children.processes) - Len(processes),
                    held_before |-> servo_process,
                    exited_before |-> /\ IsSome(servo_process)
                                      /\ processes[servo_process[1]] = "exited"]
    /\ servo_process' = out.children.servo_process
    /\ processes' = out.children.processes
    /\ UNCHANGED << envVars, domVars, selfVars, SERVO_DAEMON, logVars, pending >>

\* ServoStyleEngineReal::get_computed_style of the linux-ready draft
LinuxGetComputedStyle ==
    /\ kind = "linux"
    /\ \E selector \in Selectors, spawn_ok \in BOOLEAN, reply \in LinuxReplies :
        LinuxQuery("get_computed_style", selector, Some("color"),
                   Linux_query_servo_process(servo_process, processes, spawn_ok, reply))

\* ServoStyleEngineReal::get_all_computed_styles of the linux-ready draft
LinuxGetAllComputedStyles ==
    /\ kind = "linux"
    /\ \E selector \in Selectors, spawn_ok \in BOOLEAN, reply \in LinuxReplies :
        LinuxQuery("get_all_computed_styles", selector, None,
                   Linux_query_servo_process(servo_process, processes, spawn_ok, reply))

\* the Servo child exits on its own
ServoExits ==
    /\ \E n \in 1..Len(processes) :
        /\ processes[n] = "running"
        /\ processes' = [processes EXCEPT ![n] = "exited"]
    /\ UNCHANGED << envVars, domVars, selfVars, SERVO_DAEMON, logVars, lastCall,
                    pending, servo_process >>

\* StyloElement::new
StyloNew ==
    /\ \E tag_name \in TagNames : element' = StyloElement_new(tag_name)
    /\ domCall' = [op |-> "new"]
    /\ UNCHANGED << envVars, procVars, selfVars, SERVO_DAEMON, logVars, lastCall >>

\* StyloElement::with_attribute, a builder call: the client makes it before
\* it shares the element with children
WithAttribute ==
    /\ element # NoElement
    /\ Len(element.children) = 0
    /\ \E name \in AttrNames, value \in AttrValues :
        /\ element' = with_attribute(element, name, value)
        /\ domCall' = [op |-> "with_attribute", name |-> name, value |-> value]
    /\ UNCHANGED << envVars, procVars, selfVars, SERVO_DAEMON, logVars, lastCall >>

\* the client links a child through the public fields parent and children
PushChild ==
    /\ element # NoElement
    /\ Len(element.children) < MaxChildren
    /\ \E child \in ChildElements :
        element' = [element EXCEPT !.children =
                        Append(@, [child EXCEPT !.parent = Some(element)])]
    /\ domCall' = [op |-> "push_child"]
    /\ UNCHANGED << envVars, procVars, selfVars, SERVO_DAEMON, logVars, lastCall >>

\* the client walks the children of the element both ways and asks every
\* child for its siblings
Traverse ==
    /\ element # NoElement
    /\ domCall' =
           [op |-> "traverse",
            walk |-> sibling_walk(first_child(StyloNode_new_element(element))),
            traversal |-> traversal_children(element),
            siblings |->
                [i \in 1..Len(element.children) |->
                    [prev |-> prev_sibling(StyloNode_new_element(element.children[i])),
                     next |-> next_sibling(StyloNode_new_element(element.children[i])),
                     prev_element |-> prev_sibling_element(element.children[i]),
                     next_element |-> next_sibling_element(element.children[i])]],
            own |-> [prev |-> prev_sibling(StyloNode_new_element(element)),
                     next |-> next_sibling(StyloNode_new_element(element)),
                     prev_element |-> prev_sibling_element(element),
                     next_element |-> next_sibling_element(element)]]
    /\ UNCHANGED << envVars, procVars, selfVars, SERVO_DAEMON, logVars, lastCall, element >>

(***************************************************************************)
(* Specifications.                                                         *)
(***************************************************************************)
InitEngine ==
    /\ kind = "none"
    /\ base_html = << >>
    /\ stylesheets = << >>
    /\ servo_path = None
    /\ use_daemon = FALSE
    /\ SERVO_DAEMON = FALSE
    /\ addLog = << >>
    /\ htmlLog = << >>
    /\ lastCall = [op |-> "none"]
    /\ element = NoElement
    /\ domCall = [op |-> "none"]
    /\ pending = NoCall
    /\ servo_process = None
    /\ processes = << >>

Init ==
    /\ pathExists \in SUBSET Paths
    /\ servoOnPath \in BOOLEAN
    /\ enable_real_integration \in BOOLEAN
    /\ servo \in FewRuns
    /\ InitEngine

Next ==
    \/ NewSim
    \/ WithServoPathSim
    \/ WithServoPathReal
    \/ WithServoPathLinuxReady
    \/ WithOptions
    \/ AddStylesheet(CssTexts)
    \/ SetHtml
    \/ SimGetComputedStyle
    \/ SimGetAllComputedStyles
    \/ RealGetComputedStyle
    \/ RealGetAllComputedStyles
    \/ OptGetComputedStyle
    \/ OptGetAllComputedStyles
    \/ ComputeStylesBatch

Spec == Init /\ [][Next]_vars

\* the simulation alone, over stylesheets that exercise its substring checks
InitSim ==
    /\ pathExists = { }
    /\ servoOnPath = FALSE
    /\ enable_real_integration = FALSE
    /\ servo = NoRun
    /\ InitEngine

NextSim ==
    \/ NewSim
    \/ WithServoPathSim
    \/ AddStylesheet(SimCssTexts)
    \/ SetHtml
    \/ SimGetComputedStyle
    \/ SimGetAllComputedStyles

SpecSim == InitSim /\ [][NextSim]_vars

\* ServoStyleEngineReal alone, over what Servo may write

InitReal ==
    /\ pathExists = Paths
    /\ servoOnPath = FALSE
    /\ enable_real_integration = FALSE
    /\ servo \in Runs(MaxLines)
    /\ InitEngine

NextReal ==
    \/ WithServoPathReal
    \/ SetHtml
    \/ RealGetComputedStyle
    \/ RealGetAllComputedStyles
    \/ ParseServoOutput

SpecReal == InitReal /\ [][NextReal]_vars

\* ServoStyleEngine with servo_config.toml enabling real integration
InitSimReal ==
    /\ pathExists = Paths
    /\ servoOnPath = TRUE
    /\ enable_real_integration = TRUE
    /\ servo \in StyloRuns(MaxLines)
    /\ InitEngine

NextSimReal ==
    \/ NewSim
    \/ WithServoPathSim
    \/ SetHtml
    \/ AddStylesheet(CssTexts)
    \/ SimRealBegin
    \/ SimRealReturn

SpecSimReal == InitSimReal /\ [][NextSimReal]_vars

\* ServoStyleEngineReal with the wait for Servo as a step of its own; the
\* runtime resumes the call when Servo has exited or the timer has fired
InitRealWait ==
    /\ pathExists = Paths
    /\ servoOnPath = FALSE
    /\ enable_real_integration = FALSE
    /\ servo \in WaitRuns
    /\ InitEngine

NextRealWait ==
    \/ WithServoPathReal
    \/ SetHtml
    \/ RealBegin
    \/ RealReturn

\* the steps of RealReturn, by what they do to the call in progress
RealResumes ==
    /\ kind = "real"
    /\ pending # NoCall
    /\ wait_ends(servo)
    /\ pending' = NoCall

SpecRealWait == InitRealWait /\ [][NextRealWait]_vars /\ WF_pending(RealResumes)

\* the linux-ready engine and its Servo child
InitLinux ==
    /\ pathExists = Paths
    /\ servoOnPath = TRUE
    /\ enable_real_integration = FALSE
    /\ servo = NoRun
    /\ InitEngine

NextLinux ==
    \/ WithServoPathLinuxReady
    \/ SetHtml
    \/ AddStylesheet(CssTexts)
    \/ LinuxGetComputedStyle
    \/ LinuxGetAllComputedStyles
    \/ ServoExits

SpecLinux == InitLinux /\ [][NextLinux]_vars

\* the Stylo adapter alone
NextDom ==
    \/ StyloNew
    \/ WithAttribute
    \/ PushChild
    \/ Traverse

SpecDom == InitSim /\ [][NextDom]_vars

\* ServoStyleEngineOptimized alone, over what Servo may write
InitBatch ==
    /\ pathExists = Paths
    /\ servoOnPath = FALSE
    /\ enable_real_integration = FALSE
    /\ servo \in BatchRuns(MaxLines)
    /\ InitEngine

NextBatch ==
    \/ WithOptions
    \/ OptGetComputedStyle
    \/ OptGetAllComputedStyles
    \/ ComputeStylesBatch
    \/ ProcessBatch
    \/ ParseBatchOutput

SpecBatch == InitBatch /\ [][NextBatch]_vars

\* process_batch alone, with and without the daemon; Servo writes to stdout
InitDaemon ==
    /\ pathExists = Paths
    /\ servoOnPath = FALSE
    /\ enable_real_integration = FALSE
    /\ servo \in { r \in BatchRuns(MaxLines) : r.stderr = << >> }
    /\ InitEngine

NextDaemon ==
    \/ WithOptions
    \/ ProcessBatch

SpecDaemon == InitDaemon /\ [][NextDaemon]_vars

\* parse_batch_output alone, on the two streams of a completed run
InitParse ==
    /\ pathExists = Paths
    /\ servoOnPath = FALSE
    /\ enable_real_integration = FALSE
    /\ servo \in { r \in BatchRuns(MaxLines) : r.exit = "completed" /\ r.fault = "none" }
    /\ InitEngine

NextParse ==
    \/ WithOptions
    \/ ParseBatchOutput

SpecParse == InitParse /\ [][NextParse]_vars

(***************************************************************************)
(* The claims.                                                             *)
(***************************************************************************)
Range(f) == { f[i] : i \in DOMAIN f }

IsQuery(k) ==
    /\ lastCall.op \in { "get_computed_style", "get_all_computed_styles" }
    /\ lastCall.engine = k

\* the property names of the simulation
SimulatedProperties ==
    { "display", "color", "font-family", "font-size", "font-weight", "line-height",
      "margin-top", "margin-right", "margin-bottom", "margin-left",
      "padding-top", "padding-right", "padding-bottom", "padding-left",
      "border-top-width", "border-right-width", "border-bottom-width",
      "border-left-width", "background-color", "position", "z-index" }

\* C1: in simulation mode get_all_computed_styles returns Ok with a map of
\* exactly the 21 simulated property names, whatever the HTML, the selector
\* and the pseudo-element; each value is the default, except that color is
\* "rgb(255, 0, 0)" iff the stylesheets joined by newlines contain
\* "color: red", font-size is "24px" iff they contain "font-size: 24px" and
\* background-color is "rgb(255, 255, 0)" iff they contain
\* "background-color: yellow".
C1_SimulatedStyles ==
    (lastCall.op = "get_all_computed_styles" /\ lastCall.engine = "sim") =>
        LET css == Join(stylesheets, << NL >>)
            styles == lastCall.result.value
        IN  /\ lastCall.result.ok
            /\ DOMAIN styles = SimulatedProperties
            /\ Cardinality(DOMAIN styles) = 21
            /\ styles["color"] = "rgb(255, 0, 0)"
                   <=> Contains(css, << "color: ", "red" >>)
            /\ styles["font-size"] = "24px"
                   <=> Contains(css, << "font-size: ", "24px" >>)
            /\ styles["background-color"] = "rgb(255, 255, 0)"
                   <=> Contains(css, << "background-", "color: ", "yellow" >>)
            /\ \A p \in DOMAIN styles :
                   \/ styles[p] = DefaultMap[p]
                   \/ p = "color" /\ styles[p] = "rgb(255, 0, 0)"
                   \/ p = "font-size" /\ styles[p] = "24px"
                   \/ p = "background-color" /\ styles[p] = "rgb(255, 255, 0)"

\* two stylesheets that together set color and font-size
C1_Witness ==
    /\ lastCall.op = "get_all_computed_styles"
    /\ lastCall.engine = "sim"
    /\ Len(stylesheets) = 2
    /\ lastCall.result.ok
    /\ lastCall.result.value["color"] = "rgb(255, 0, 0)"
    /\ lastCall.result.value["font-size"] = "24px"
    /\ lastCall.result.value["background-color"] = "rgba(0, 0, 0, 0)"

IsConstructor ==
    /\ lastCall.op \in { "with_servo_path", "with_options" }
    /\ lastCall.engine \in { "real", "opt", "linux" }

\* C3: with_servo_path of ServoStyleEngineReal (both drafts) and with_options
\* return Err(ServoNotFound) exactly when a path is given that does not
\* exist, or none is given and no servo is on PATH; otherwise they return an
\* engine with empty HTML and no stylesheets; in neither case is a Servo
\* process started.
C3_ConstructorFindsServo ==
    IsConstructor =>
        LET path == lastCall.path
            missing == \/ IsSome(path) /\ path[1] \notin pathExists
                       \/ ~IsSome(path) /\ ~servoOnPath
        IN  /\ missing <=> ~lastCall.result.ok
            /\ missing => /\ lastCall.result.err = "ServoNotFound"
                          /\ kind = "none"
            /\ ~missing => /\ lastCall.result.value.base_html = << >>
                           /\ lastCall.result.value.stylesheets = << >>
                           /\ kind = lastCall.engine
                           /\ base_html = << >>
                           /\ stylesheets = << >>
            /\ lastCall.spawned = 0

\* no path is given and no servo is on PATH
C3_Witness ==
    /\ IsConstructor
    /\ lastCall.engine = "real"
    /\ lastCall.path = None
    /\ ~servoOnPath
    /\ ~lastCall.result.ok

HasMarker(line) == \E m \in { RES, RESS, ERR } : m \in Range(line)

\* the text of a line after the first occurrence of a marker
AfterMarker(line, m) == SubSeq(line, IndexOf(line, m) + 1, Len(line))

\* index of the first line that holds a marker, 0 if there is none
Deciding(lines) ==
    IF \E i \in 1..Len(lines) : HasMarker(lines[i])
    THEN CHOOSE i \in 1..Len(lines) :
             HasMarker(lines[i]) /\ \A j \in 1..(i - 1) : ~HasMarker(lines[j])
    ELSE 0

OutputLines(run) == Lines(run.stdout) \o Lines(run.stderr)

\* C4: parse_servo_output decides on the first line, of stdout and then of
\* stderr, that holds a marker: a result line yields Ok with the trimmed
\* text after the marker, an error line Err(CommunicationError("Servo error:
\* <text after the marker>")), no marker line an Err.
C4_FirstMarkerLineDecides ==
    lastCall.op = "parse_servo_output" =>
        LET lines == Lines(lastCall.stdout) \o Lines(lastCall.stderr)
            d == Deciding(lines)
        IN  IF d = 0 THEN ~lastCall.result.ok
            ELSE IF RES \in Range(lines[d])
            THEN lastCall.result = Ok(Trim(AfterMarker(lines[d], RES)))
            ELSE IF RESS \in Range(lines[d])
            THEN lastCall.result = Ok(Trim(AfterMarker(lines[d], RESS)))
            ELSE lastCall.result =
                     Err("CommunicationError",
                         << "Servo error: " >> \o AfterMarker(lines[d], ERR))

IsResultLine(line) == RES \in Range(line) \/ RESS \in Range(line)

\* C5: when the Servo run of a ServoStyleEngineReal query logs an error line
\* and no result line, the query returns
\* Err(CommunicationError("Servo error: <msg>")).
C5_ServoErrorReachesCaller ==
    LET lines == OutputLines(lastCall.run)
    IN  ( /\ IsQuery("real")
          /\ lastCall.run.exit = "completed"
          /\ lastCall.run.fault = "none"
          /\ \A i \in 1..Len(lines) : ~IsResultLine(lines[i])
          /\ Deciding(lines) # 0 )
        => lastCall.result =
               Err("CommunicationError",
                   << "Servo error: " >> \o AfterMarker(lines[Deciding(lines)], ERR))

\* C6: when the Servo run of a ServoStyleEngineReal query writes no marker at
\* all, or times out, the query returns Err(CommunicationError("No computed
\* style results found. Check output file: ...")).
C6_NoResultsFound ==
    ( /\ IsQuery("real")
      /\ lastCall.run.fault = "none"
      /\ \/ lastCall.run.exit = "timeout"
         \/ /\ lastCall.run.exit = "completed"
            /\ Deciding(OutputLines(lastCall.run)) = 0 )
    => /\ ~lastCall.result.ok
       /\ lastCall.result.err = "CommunicationError"
       /\ Head(lastCall.result.msg) = "No computed style results found. Check output file: "

\* the stylesheet and the body of a page handed to Servo
CssUsed(page) ==
    SubSeq(page, IndexOf(page, STYLE_OPEN) + 2, IndexOf(page, STYLE_CLOSE) - 2)

HtmlUsed(page) ==
    SubSeq(page, IndexOf(page, BODY_OPEN) + 2, IndexOf(page, SCRIPT_OPEN) - 2)

IsAnyQuery ==
    lastCall.op \in { "get_computed_style", "get_all_computed_styles",
                      "compute_styles_batch" }

\* C2: for each of the three engines, add_stylesheet and set_html return Ok,
\* and the CSS a query uses is all add_stylesheet arguments in call order
\* joined by newlines, the HTML the argument of the latest set_html (empty
\* if there was none).
C2_QueryUsesAllSheets ==
    /\ lastCall.op \in { "add_stylesheet", "set_html" } => lastCall.result = Ok(Unit)
    /\ (IsAnyQuery /\ lastCall.engine = "sim") =>
           /\ lastCall.sent.css = Join(addLog, << NL >>)
           /\ lastCall.sent.html = htmlLog
    /\ (IsAnyQuery /\ lastCall.engine \in { "real", "opt" } /\ lastCall.sent # None) =>
           /\ CssUsed(lastCall.sent) = Join(addLog, << NL >>)
           /\ HtmlUsed(lastCall.sent) = htmlLog

\* a batch of the third engine after two add_stylesheet calls and a set_html
C2_Witness ==
    /\ lastCall.op = "compute_styles_batch"
    /\ lastCall.engine = "opt"
    /\ Len(addLog) = 2
    /\ addLog[1] # addLog[2]
    /\ htmlLog # << >>
    /\ lastCall.sent # None
    /\ CssUsed(lastCall.sent) = addLog[1] \o << NL >> \o addLog[2]

IsDaemonBatch == lastCall.op = "process_batch" /\ use_daemon

\* what process_batch returns for the same queries and the same run of Servo
\* when use_daemon is false
StandaloneResult ==
    process_batch(Self, FALSE, batch_queries(Self, lastCall.requests), lastCall.run,
                  lastCall.daemon_before).result

\* C7 as stated: with use_daemon = true process_batch returns what it returns
\* with use_daemon = false, and the global daemon has been started.
C7_DaemonEqualsStandalone ==
    IsDaemonBatch => /\ lastCall.result = StandaloneResult
                     /\ SERVO_DAEMON

\* C7, amended: with use_daemon = true process_batch returns what it returns
\* with use_daemon = false when the daemon is running already or starts; when
\* the daemon fails to start it returns that ProcessStartError, hands nothing
\* to Servo, and the daemon stays unset.
C7_DaemonEqualsStandaloneOnceStarted ==
    IsDaemonBatch =>
        IF ~lastCall.daemon_before /\ lastCall.run.fault = "daemon_start"
        THEN /\ ~lastCall.result.ok
             /\ lastCall.result.err = "ProcessStartError"
             /\ lastCall.sent = None
             /\ lastCall.spawned = 0
             /\ ~SERVO_DAEMON
        ELSE /\ lastCall.result = StandaloneResult
             /\ lastCall.sent # None
             /\ SERVO_DAEMON

\* the daemon fails to start although Servo would have answered the batch
C7_Witness ==
    /\ IsDaemonBatch
    /\ ~lastCall.daemon_before
    /\ lastCall.run.fault = "daemon_start"
    /\ Len(lastCall.requests) = 2
    /\ StandaloneResult.ok
    /\ \E i \in 1..Len(StandaloneResult.value) : StandaloneResult.value[i].success
    /\ ~lastCall.result.ok

\* the responses parse_batch_output builds from one line
LineResponses(line) ==
    all_result(single_result([responses |-> << >>, processed_ids |-> { }], line),
               line).responses

\* the results Servo produced for the query id: one for each well-formed
\* result line with that id, and the error of a query without any
ProducedFor(id, lines) ==
    LET answers == { r \in UNION { Range(LineResponses(lines[i])) : i \in 1..Len(lines) } :
                         r.id = id }
    IN  IF answers = { }
        THEN { Err("ComputationError", NoResultInBatch) }
        ELSE { IF IsSome(r.computed_value) THEN Ok(r.computed_value[1])
               ELSE OkJson(r.computed_styles[1]) : r \in answers }

\* Servo's result lines carry ids of queries of the batch only, as the page
\* of create_batch_html makes it write them
AnswersTheBatch ==
    LET lines == OutputLines(lastCall.run)
    IN  \A n \in 1..Len(lines) :
            \A r \in Range(LineResponses(lines[n])) :
                \E i \in 1..Len(lastCall.requests) : r.id = Uuid(i)

\* C8: the i-th pair compute_styles_batch returns carries the selector of
\* the i-th request and a result Servo produced for that request, whenever
\* Servo's result lines are for queries of the batch.
C8_ResultsMatchRequests ==
    (lastCall.op = "compute_styles_batch" /\ lastCall.result.ok /\ AnswersTheBatch) =>
        \A i \in 1..Len(lastCall.requests) :
            /\ i <= Len(lastCall.result.value)
            /\ lastCall.result.value[i][1] = lastCall.requests[i][1]
            /\ \E r \in ProducedFor(Uuid(i), OutputLines(lastCall.run)) :
                   lastCall.result.value[i][2] = r

\* C9: when compute_styles_batch returns Ok, the vector has one entry for
\* each request, whenever Servo's result lines are for queries of the batch.
C9_OneEntryPerRequest ==
    (lastCall.op = "compute_styles_batch" /\ lastCall.result.ok /\ AnswersTheBatch) =>
        Len(lastCall.result.value) = Len(lastCall.requests)

\* C10: parse_batch_output returns Ok with at least one response for the id
\* of each query; a query without a well-formed result line of its id gets a
\* response with success = false and the error "No result found in batch
\* output", and no failed response carries any other error.
C10_EveryQueryAnswered ==
    lastCall.op = "parse_batch_output" =>
        LET responses == lastCall.result.value
            lines == OutputLines(lastCall.run)
        IN  /\ lastCall.result.ok
            /\ \A i \in 1..Len(lastCall.requests) :
                   /\ \E j \in 1..Len(responses) : responses[j].id = Uuid(i)
                   /\ (\A n \in 1..Len(lines) :
                           \A r \in Range(LineResponses(lines[n])) : r.id # Uuid(i))
                      => \E j \in 1..Len(responses) :
                             responses[j] = StyleResponse(Uuid(i), FALSE, None, None,
                                                          Some(NoResultInBatch))
            /\ \A j \in 1..Len(responses) :
                   ~responses[j].success => responses[j].error = Some(NoResultInBatch)

\* two queries: Servo reported an error for the first and a value for the
\* second
C10_Witness ==
    /\ lastCall.op = "parse_batch_output"
    /\ Len(lastCall.requests) = 2
    /\ OutputLines(lastCall.run) =
           << << ERR >> \o Uuid(1) \o << COLON, "Element not found" >>,
              << RES >> \o Uuid(2) \o << COLON, J_SINGLE2 >> >>
    /\ Len(lastCall.result.value) = 2
    /\ lastCall.result.value[1].id = Uuid(2)
    /\ lastCall.result.value[1].success
    /\ lastCall.result.value[2] = StyleResponse(Uuid(1), FALSE, None, None,
                                                Some(NoResultInBatch))


\* the four sibling answers of one node are all None
NoSiblings(answers) ==
    /\ answers.prev = None
    /\ answers.next = None
    /\ answers.prev_element = None
    /\ answers.next_element = None

\* C11: prev_sibling and next_sibling of a StyloNode and prev_sibling_element
\* and next_sibling_element of a StyloElement are None for every node, also
\* for the children of a parent with several children; so the walk over
\* first_child and next_sibling visits the first child at most, while
\* traversal_children yields every child in order.
C11_SiblingsAlwaysNone ==
    domCall.op = "traverse" =>
        /\ NoSiblings(domCall.own)
        /\ \A i \in 1..Len(element.children) : NoSiblings(domCall.siblings[i])
        /\ Len(domCall.walk) <= 1
        /\ Len(element.children) > 0 =>
               domCall.walk = << StyloNode_new_element(element.children[1]) >>
        /\ Len(domCall.traversal) = Len(element.children)
        /\ \A i \in 1..Len(element.children) :
               domCall.traversal[i].element = Some(element.children[i])

C11_Witness ==
    /\ domCall.op = "traverse"
    /\ Len(element.children) = 2
    /\ element.children[1] # element.children[2]
    /\ Len(domCall.walk) = 1
    /\ Len(domCall.traversal) = 2
    /\ NoSiblings(domCall.siblings[2])

\* the id and the classes an element must carry for its attributes
IdOfAttributes(attributes) ==
    IF "id" \in DOMAIN attributes THEN Some(attributes["id"]) ELSE None

ClassesOfAttributes(attributes) ==
    IF "class" \in DOMAIN attributes THEN split_whitespace(attributes["class"])
    ELSE << >>

MirrorsAttributes(e) ==
    /\ e.id = IdOfAttributes(e.attributes)
    /\ e.classes = ClassesOfAttributes(e.attributes)
    /\ \A v \in AttrValues : has_id(e, v) <=> e.id = Some(v)

\* what one with_attribute(name, value) does to the element
ReplacesOnly(before, after, name, value) ==
    /\ DOMAIN after.attributes = DOMAIN before.attributes \cup { name }
    /\ after.attributes[name] = value
    /\ \A other \in DOMAIN before.attributes \ { name } :
           after.attributes[other] = before.attributes[other]
    /\ after.id = IF name = "id" THEN Some(value) ELSE before.id
    /\ after.classes = IF name = "class" THEN split_whitespace(value)
                       ELSE before.classes

\* C12: after StyloElement::new and any sequence of with_attribute calls, id
\* is Some(v) exactly when the attributes hold "id" with value v, and classes
\* is the whitespace split of the current "class" attribute (empty without
\* one); a later with_attribute of a name replaces the earlier one, and a
\* call for another name changes neither id nor classes.
C12_IdAndClassesMirrorAttributes ==
    /\ [](element # NoElement => MirrorsAttributes(element))
    /\ [][(domCall'.op = "with_attribute" /\ domCall' # domCall) =>
             ReplacesOnly(element, element', domCall'.name, domCall'.value)]_vars

C12_Witness ==
    /\ domCall.op = "with_attribute"
    /\ domCall.name = "class"
    /\ DOMAIN element.attributes = { "id", "class", "title" }
    /\ element.attributes["class"] = << SP, "b", SP, SP, "c-", "d", SP >>
    /\ element.classes = << << "b" >>, << "c-", "d" >> >>
    /\ element.attributes["title"] = << "a", SP, "b" >>
    /\ element.id = Some(<< "main" >>)
    /\ has_class(element, << "c-", "d" >>)
    /\ ~has_class(element, << "a" >>)

\* the value the simulation holds for a simulated property, from the
\* stylesheets alone
SimulatedValue(sheets, property) ==
    LET css == Join(sheets, << NL >>)
    IN  IF property = "color" /\ Contains(css, << "color: ", "red" >>)
        THEN "rgb(255, 0, 0)"
        ELSE IF property = "font-size" /\ Contains(css, << "font-size: ", "24px" >>)
        THEN "24px"
        ELSE IF property = "background-color"
                /\ Contains(css, << "background-", "color: ", "yellow" >>)
        THEN "rgb(255, 255, 0)"
        ELSE DefaultMap[property]

IsSimGetComputedStyle ==
    lastCall.op = "get_computed_style" /\ lastCall.engine = "sim"

\* C16: in simulation mode get_computed_style(selector, property, _) returns
\* Ok(value) iff property is one of the 21 simulated names and otherwise
\* Err(ProcessError("Property '<property>' not found or invalid")); the
\* outcome is fixed by the property and the stylesheets, whatever the
\* selector, the HTML and the pseudo-element.
C16_OkIffSimulatedProperty ==
    IsSimGetComputedStyle =>
        LET property == lastCall.property[1]
        IN  /\ lastCall.result.ok <=> property \in SimulatedProperties
            /\ lastCall.result.ok =>
                   lastCall.result = Ok(SimulatedValue(stylesheets, property))
            /\ ~lastCall.result.ok =>
                   lastCall.result = Err("ProcessError",
                       << "Property '", property, "' not found or invalid" >>)

C16_Witness ==
    /\ IsSimGetComputedStyle
    /\ lastCall.property = Some("width")
    /\ lastCall.selector = ".missing"
    /\ lastCall.sent.pseudo_element = Some("::before")
    /\ Len(base_html) > 0
    /\ Len(stylesheets) > 0
    /\ ~lastCall.result.ok

\* a stylesheet that declares the color property red: the text "color: red"
\* that is not the tail of "background-color: red"
SetsColorRed(sheet) ==
    \E i \in 1..Len(sheet) :
        /\ sheet[i] = "color: "
        /\ i < Len(sheet)
        /\ sheet[i + 1] = "red"
        /\ (i = 1 \/ sheet[i - 1] # "background-")

\* C17: in simulation mode the computed color is "rgb(255, 0, 0)" only when
\* a stylesheet sets the color property to red; stylesheets that only
\* declare background-color: red leave it at the default "rgb(0, 0, 0)".
C17_ColorRedOnlyFromColor ==
    (IsSimGetComputedStyle /\ lastCall.property = Some("color")) =>
        /\ lastCall.result.ok
        /\ lastCall.result.value = "rgb(255, 0, 0)" =>
               \E i \in 1..Len(stylesheets) : SetsColorRed(stylesheets[i])
        /\ (\A i \in 1..Len(stylesheets) :
                stylesheets[i] = << "background-", "color: ", "red" >>) =>
               lastCall.result.value = "rgb(0, 0, 0)"

\* a get_computed_style call of ServoStyleEngine under real integration that
\* has returned
IsSimRealQuery ==
    /\ lastCall.op = "get_computed_style"
    /\ lastCall.engine = "sim"
    /\ enable_real_integration

\* Servo ran the page and its first response says that querySelector found
\* no element
ReportsElementNotFound(run) ==
    /\ run.exit = "completed"
    /\ run.fault = "none"
    /\ first_stylo_result(Lines(run.stdout)) =
           Some(Ok(StyleResponse(<< "id-1" >>, FALSE, None, None,
                                 Some(<< "Element not found: .missing" >>))))

\* C13: when the queried selector matches no element,
\* ServoStyleEngine::get_computed_style returns Err(ElementNotFound(..)).
C13_NoElementIsElementNotFound ==
    (IsSimRealQuery /\ lastCall.selector = ".missing"
        /\ ReportsElementNotFound(lastCall.run)) =>
        /\ ~lastCall.result.ok
        /\ lastCall.result.err = "ElementNotFound"

\* Servo was started and stdout holds no line with the response marker
NoResponse(run) ==
    /\ run.fault = "none"
    /\ run.exit \in { "completed", "never" }
    /\ \A i \in 1..Len(Lines(run.stdout)) : ~Contains(Lines(run.stdout)[i], << STYLO >>)

\* C14: a query under real integration whose Servo never produces a response
\* ends with Err(Timeout): a call that has returned without a response
\* returned Timeout, and a call that waits for such a Servo can return.
C14_NoResponseEndsInTimeout ==
    /\ (IsSimRealQuery /\ NoResponse(lastCall.run)) =>
           (~lastCall.result.ok /\ lastCall.result.err = "Timeout")
    /\ (pending # NoCall /\ enable_real_integration /\ NoResponse(servo)) =>
           ENABLED SimRealReturn

\* the run of a Servo that exited at once and wrote nothing
EmptyOutput(run) == Run("completed", << >>, << >>, run.fault)

\* Servo was started and has not exited when the wait ends
NeverExits(run) ==
    /\ run.exit \in { "timeout", "never" }
    /\ run.fault \notin { "tempfile_create", "tempfile_write" }

\* C15: every get_computed_style and get_all_computed_styles call of
\* ServoStyleEngineReal returns, also when the Servo it started never exits:
\* the wait is abandoned after the 10-second timeout and the call goes on as
\* if Servo had written nothing to stdout and stderr.
C15_QueryReturnsWithoutServo ==
    /\ (pending # NoCall) ~> (pending = NoCall)
    /\ [][(pending # NoCall /\ pending' = NoCall /\ NeverExits(servo)) =>
             /\ lastCall'.op = pending.op
             /\ lastCall'.result = Real_call(Self, pending, EmptyOutput(servo)).result]_vars

C15_Witness ==
    /\ pending = NoCall
    /\ lastCall.op \in { "get_computed_style", "get_all_computed_styles" }
    /\ lastCall.engine = "real"
    /\ lastCall.run.exit = "never"
    /\ lastCall.run.fault = "none"
    /\ Len(lastCall.run.stdout) > 0
    /\ lastCall.spawned = 1
    /\ lastCall.result =
           Real_call(Self, [selector |-> lastCall.selector,
                            property |-> lastCall.property],
                     Run("completed", << >>, << >>, "none")).result
    /\ lastCall.result #
           Real_call(Self, [selector |-> lastCall.selector,
                            property |-> lastCall.property],
                     Run("completed", lastCall.run.stdout, << >>, "none")).result

\* a query of the linux-ready engine that has returned
IsLinuxQuery ==
    /\ lastCall.op \in { "get_computed_style", "get_all_computed_styles" }
    /\ lastCall.engine = "linux"

\* C18: ensure_servo_process of the linux-ready engine starts Servo if it is
\* not already running: a query made when the child spawned before has
\* exited spawns a new Servo process, which the engine then holds, before it
\* sends its request.
C18_ExitedChildIsReplaced ==
    (IsLinuxQuery /\ lastCall.exited_before) =>
        /\ lastCall.spawned = 1
        /\ servo_process # lastCall.held_before
        /\ IsSome(servo_process)
====
